---- MODULE Spec2Model ----
(***************************************************************************)
(* Model of remove_comments.py: the four regular-expression comment        *)
(* strippers, the blank-line compaction of process_file and the directory  *)
(* walk of main.  Text is a sequence of one-character strings.             *)
(***************************************************************************)
EXTENDS Integers, Sequences, FiniteSets, TLC

\* ------------------------------------------------------------------------
\* Characters the patterns and the line handling distinguish
\* ------------------------------------------------------------------------
NL == "\n"
CR == "\r"
FF == "\f"
SP == " "
BS == "\\"
SQ == "'"
DQ == "\""
\* the backtick (the string syntax of TLA+ has no backtick, so it is spelt out)
BT == "BACKTICK"

\* str.strip() removes these; a line made only of them is dropped
Whitespace == {SP, NL, CR, FF, "\t"}

\* str.splitlines() breaks at NL, CR, CR NL, FF (and other separators)
LineBreaks == {NL, CR, FF}

\* ------------------------------------------------------------------------
\* Regular-expression pieces (Python re: backtracking, leftmost alternative
\* first, '.' matches every character but NL)
\* ------------------------------------------------------------------------
StartsWith(s, i, t) ==
    /\ i + Len(t) - 1 <= Len(s)
    /\ SubSeq(s, i, i + Len(t) - 1) = t

\* '.' of the escape alternative \\. : any character except NL
Dot(c) == c # NL

\* (?:\\.|[^excl])*q tried from index i (just after the opening quote):
\* the index of the closing quote of the match the engine returns, 0 if none.
\* The star is greedy, \\. is tried before the class, and the engine
\* backtracks into the class alternative when the rest cannot match.
RECURSIVE LitEnd(_, _, _, _)
LitEnd(s, i, q, excl) ==
    IF i > Len(s) THEN 0
    ELSE LET viaEscape == IF s[i] = BS /\ i + 1 <= Len(s) /\ Dot(s[i + 1])
                          THEN LitEnd(s, i + 2, q, excl) ELSE 0
             viaClass  == IF s[i] \notin excl
                          THEN LitEnd(s, i + 1, q, excl) ELSE 0
         IN  IF viaEscape # 0 THEN viaEscape
             ELSE IF viaClass # 0 THEN viaClass
             ELSE IF s[i] = q THEN i ELSE 0

\* the character class of each quoted alternative: [^\\'] , [^\\"] , [^`]
QuoteClassExcl(q) == IF q = BT THEN {BT} ELSE {BS, q}

\* group 1: '...' | "..." | `...` restricted to the quotes the pattern has
StringMatchMutant(s, i, quotes) ==
    IF s[i] \in quotes
    THEN LET e == LitEnd(s, i + 1, s[i], QuoteClassExcl(s[i]))
         IN  IF e # 0 THEN e ELSE Len(s)
    ELSE 0
StringMatch(s, i, quotes) ==
    IF s[i] \in quotes THEN LitEnd(s, i + 1, s[i], QuoteClassExcl(s[i])) ELSE 0

\* open[\s\S]*?close : lazy, so the first close after the opener ends it
RECURSIVE LazyFind(_, _, _)
LazyFind(s, j, close) ==
    IF j + Len(close) - 1 > Len(s) THEN 0
    ELSE IF StartsWith(s, j, close) THEN j + Len(close) - 1
    ELSE LazyFind(s, j + 1, close)

DelimMatchMutant(s, i, open, close) ==
    IF StartsWith(s, i, open)
    THEN LET e == LazyFind(s, i + Len(open), close)
         IN  IF e # 0 THEN e ELSE Len(s)
    ELSE 0
DelimMatch(s, i, open, close) ==
    IF StartsWith(s, i, open) THEN LazyFind(s, i + Len(open), close) ELSE 0

\* .* : greedy run of non-NL characters from j; index of its last character
RECURSIVE DotStar(_, _)
DotStar(s, j) ==
    IF j <= Len(s) /\ Dot(s[j]) THEN DotStar(s, j + 1) ELSE j - 1

\* open.*  (and open.*$ under re.MULTILINE, where $ holds before NL and at
\* the end of the text, which is exactly where the greedy .* stops)
LineMatch(s, i, open) ==
    IF StartsWith(s, i, open) THEN DotStar(s, i + Len(open)) ELSE 0

SlashStar == <<"/", "*">>
StarSlash == <<"*", "/">>
SlashSlash == <<"/", "/">>
MarkupOpen == <<"<", "!", "-", "-">>
MarkupClose == <<"-", "-", ">">>
Hash == <<"#">>

NoMatch == [g |-> 0, to |-> 0]

\* the pattern of remove_js_ts_comments at index i: the group that matched
\* and the index of the last character of the match
JsPattern(s, i) ==
    LET g1 == StringMatch(s, i, {SQ, DQ, BT})
        g2 == DelimMatch(s, i, SlashStar, StarSlash)
        g3 == LineMatch(s, i, SlashSlash)
    IN  IF g1 # 0 THEN [g |-> 1, to |-> g1]
        ELSE IF g2 # 0 THEN [g |-> 2, to |-> g2]
        ELSE IF g3 # 0 THEN [g |-> 3, to |-> g3]
        ELSE NoMatch

HtmlPattern(s, i) ==
    LET g == DelimMatch(s, i, MarkupOpen, MarkupClose)
    IN  IF g # 0 THEN [g |-> 2, to |-> g] ELSE NoMatch

CssPattern(s, i) ==
    LET g == DelimMatch(s, i, SlashStar, StarSlash)
    IN  IF g # 0 THEN [g |-> 2, to |-> g] ELSE NoMatch

YmlPattern(s, i) ==
    LET g1 == StringMatch(s, i, {SQ, DQ})
        g2 == LineMatch(s, i, Hash)
    IN  IF g1 # 0 THEN [g |-> 1, to |-> g1]
        ELSE IF g2 # 0 THEN [g |-> 2, to |-> g2]
        ELSE NoMatch

PatternAt(pat, s, i) ==
    CASE pat = "js" -> JsPattern(s, i)
      [] pat = "html" -> HtmlPattern(s, i)
      [] pat = "css" -> CssPattern(s, i)
      [] pat = "yml" -> YmlPattern(s, i)

\* the replacer callbacks: group 1 (a string) is returned, a comment is ''
replacer(s, from, m) == IF m.g = 1 THEN SubSeq(s, from, m.to) ELSE <<>>

\* re.sub(pattern, replacer, content): non-overlapping matches left to
\* right; unmatched characters are copied
RECURSIVE Sub(_, _, _)
Sub(pat, s, i) ==
    IF i > Len(s) THEN <<>>
    ELSE LET m == PatternAt(pat, s, i)
         IN  IF m.g # 0 THEN replacer(s, i, m) \o Sub(pat, s, m.to + 1)
             ELSE <<s[i]>> \o Sub(pat, s, i + 1)

\* finditer view of the same scan: the matches as [g, from, to] records
RECURSIVE Matches(_, _, _)
Matches(pat, s, i) ==
    IF i > Len(s) THEN <<>>
    ELSE LET m == PatternAt(pat, s, i)
         IN  IF m.g # 0
             THEN <<[g |-> m.g, from |-> i, to |-> m.to]>> \o Matches(pat, s, m.to + 1)
             ELSE Matches(pat, s, i + 1)

remove_js_ts_comments(content) == Sub("js", content, 1)
remove_html_comments(content) == Sub("html", content, 1)
remove_css_comments(content) == Sub("css", content, 1)
remove_yml_comments(content) == Sub("yml", content, 1)

\* ------------------------------------------------------------------------
\* Line handling of process_file
\* ------------------------------------------------------------------------
\* str.splitlines(): lines without their terminators; CR NL is one break;
\* no empty last line after a final break
RECURSIVE SplitFrom(_, _, _, _)
SplitFrom(s, i, cur, open) ==
    IF i > Len(s) THEN (IF open THEN <<cur>> ELSE <<>>)
    ELSE IF s[i] = CR /\ i + 1 <= Len(s) /\ s[i + 1] = NL
         THEN <<cur>> \o SplitFrom(s, i + 2, <<>>, FALSE)
    ELSE IF s[i] \in LineBreaks
         THEN <<cur>> \o SplitFrom(s, i + 1, <<>>, FALSE)
    ELSE SplitFrom(s, i + 1, Append(cur, s[i]), TRUE)

splitlines(s) == SplitFrom(s, 1, <<>>, FALSE)

\* truthiness of line.strip()
NonBlank(line) == \E k \in 1..Len(line) : line[k] \notin Whitespace

RECURSIVE Join(_)
Join(ls) ==
    IF ls = <<>> THEN <<>>
    ELSE IF Len(ls) = 1 THEN ls[1]
    ELSE ls[1] \o <<NL>> \o Join(Tail(ls))

KeptLinesMutant(new_content) == splitlines(new_content)
KeptLines(new_content) == SelectSeq(splitlines(new_content), NonBlank)

FinalContent(new_content) ==
    LET lines == KeptLines(new_content)
    IN  IF lines # <<>> THEN Join(lines) \o <<NL>> ELSE <<>>

\* open(filepath, 'r'): universal newlines turn CR NL and CR into NL
RECURSIVE ReadText(_)
ReadText(bytes) ==
    IF bytes = <<>> THEN <<>>
    ELSE IF bytes[1] = CR
         THEN <<NL>> \o ReadText(IF Len(bytes) > 1 /\ bytes[2] = NL
                                  THEN SubSeq(bytes, 3, Len(bytes))
                                  ELSE Tail(bytes))
    ELSE <<bytes[1]>> \o ReadText(Tail(bytes))


\* ------------------------------------------------------------------------
\* File names: os.path.splitext and str.endswith
\* ------------------------------------------------------------------------
ExtTs == <<".", "t", "s">>
ExtTsx == <<".", "t", "s", "x">>
ExtHtml == <<".", "h", "t", "m", "l">>
ExtCss == <<".", "c", "s", "s">>
ExtYml == <<".", "y", "m", "l">>

target_extensions == {ExtTs, ExtTsx, ExtYml, ExtHtml, ExtCss}

endswith(name, ext) ==
    /\ Len(ext) <= Len(name)
    /\ SubSeq(name, Len(name) - Len(ext) + 1, Len(name)) = ext

\* main's test: any(file.endswith(ext) for ext in target_extensions)
Selected(name) == \E ext \in target_extensions : endswith(name, ext)

\* os.path.splitext: the extension starts at the last dot of the file name,
\* unless only dots precede it (a name such as .ts has no extension)
splitext(name) ==
    LET dots == {k \in 1..Len(name) : name[k] = "."}
    IN  IF dots = {} THEN <<>>
        ELSE LET last == CHOOSE k \in dots : \A j \in dots : j <= k
             IN  IF \A j \in 1..last : name[j] = "." THEN <<>>
                 ELSE SubSeq(name, last, Len(name))

\* the if/elif chain of process_file: which pattern an extension selects
PatternOfMutant(extension) ==
    IF extension = <<>> THEN "js"
    ELSE IF extension \in {ExtTs, ExtTsx} THEN "js"
    ELSE IF extension = ExtHtml THEN "html"
    ELSE IF extension = ExtCss THEN "css"
    ELSE IF extension = ExtYml THEN "yml"
    ELSE "none"
PatternOf(extension) ==
    IF extension \in {ExtTs, ExtTsx} THEN "js"
    ELSE IF extension = ExtHtml THEN "html"
    ELSE IF extension = ExtCss THEN "css"
    ELSE IF extension = ExtYml THEN "yml"
    ELSE "none"

Strip(pat, content) ==
    CASE pat = "js" -> remove_js_ts_comments(content)
      [] pat = "html" -> remove_html_comments(content)
      [] pat = "css" -> remove_css_comments(content)
      [] pat = "yml" -> remove_yml_comments(content)

\* ------------------------------------------------------------------------
\* State
\* ------------------------------------------------------------------------
VARIABLES
    dirs,      \* the directory tree: sequence of [name, parent], 1 is '.'
    files,     \* the files: sequence of [dir, name]
    disk,      \* disk[f]: the bytes of file f
    orig,      \* disk as it was when main started
    stack,     \* directories os.walk has still to yield
    queue,     \* files of the current directory the for loop has still to do
    stderr,    \* the messages printed to sys.stderr: [op, file]
    result,    \* result[f]: how process_file left file f, "none" before
    locals     \* the local variables of the latest process_file call

vars == <<dirs, files, disk, orig, stack, queue, stderr, result, locals>>

NoCall == [file |-> 0, pat |-> "none", content |-> <<>>,
           new_content |-> <<>>, final_content |-> <<>>]

GitName == <<".", "g", "i", "t">>

\* ------------------------------------------------------------------------
\* Inputs
\* ------------------------------------------------------------------------
MaxPieces == 4
MaxEscPieces == 5
MaxOther == 2
MaxFiles == 2

RECURSIVE Flat(_)
Flat(ps) == IF ps = <<>> THEN <<>> ELSE Head(ps) \o Flat(Tail(ps))

Texts(pieces, n) == {Flat(q) : q \in UNION {[1..k -> pieces] : k \in 0..n}}

ScriptPieces == {<<SQ>>, <<BT>>, <<BS>>, <<NL>>, <<"a">>, <<"/">>,
                 SlashSlash, SlashStar, StarSlash}
EscPieces == {<<SQ>>, <<BS, NL>>, <<BS, FF>>, SlashSlash, <<"a">>}
MarkupPieces == {MarkupOpen, MarkupClose, <<"-">>, <<"a">>, <<NL>>, <<CR>>}
StylePieces == {SlashStar, StarSlash, <<"/">>, <<"a">>, <<NL>>, <<SP>>}
ConfigPieces == {<<SQ>>, <<DQ>>, <<BS>>, <<NL>>, <<SP>>, <<"a">>, Hash}
OtherPieces == {SlashSlash, <<"a">>, <<NL>>, <<DQ>>}

NameTs == <<"a">> \o ExtTs
NameTsx == <<"a">> \o ExtTsx
NameHtml == <<"a">> \o ExtHtml
NameCss == <<"a">> \o ExtCss
NameYml == <<"a">> \o ExtYml
NameTxt == <<"a", ".", "t", "x", "t">>
NameDotTs == ExtTs
NameDotYml == ExtYml

Names == {NameTs, NameTsx, NameHtml, NameCss, NameYml, NameTxt, NameDotTs,
          NameDotYml}

TextsFor(name) ==
    IF name = NameTs
    THEN Texts(ScriptPieces, MaxPieces) \cup Texts(EscPieces, MaxEscPieces)
    ELSE IF name = NameHtml THEN Texts(MarkupPieces, MaxPieces)
    ELSE IF name = NameCss THEN Texts(StylePieces, MaxPieces)
    ELSE IF name = NameYml THEN Texts(ConfigPieces, MaxPieces)
    ELSE Texts(OtherPieces, MaxOther)

\* one file in the start directory
Init ==
    /\ dirs = <<[name |-> <<".">>, parent |-> 0]>>
    /\ \E name \in Names : \E text \in TextsFor(name) :
          /\ files = <<[dir |-> 1, name |-> name]>>
          /\ disk = <<text>>
    /\ orig = disk
    /\ stack = <<1>>
    /\ queue = <<>>
    /\ stderr = <<>>
    /\ result = [f \in DOMAIN files |-> "none"]
    /\ locals = NoCall

\* ------------------------------------------------------------------------
\* main
\* ------------------------------------------------------------------------
Children(d) == SelectSeq([k \in 1..Len(dirs) |-> k], LAMBDA k : dirs[k].parent = d)
FilesOf(d) == SelectSeq([k \in 1..Len(files) |-> k], LAMBDA k : files[k].dir = d)

\* if '.git' in dirs: dirs.remove('.git')
Prune(ds) == SelectSeq(ds, LAMBDA k : dirs[k].name # GitName)

\* os.walk yields the next directory, top down; main prunes .git from the
\* sub-directories to descend into and starts the loop over the files
WalkDir ==
    /\ queue = <<>>
    /\ stack # <<>>
    /\ stack' = Prune(Children(Head(stack))) \o Tail(stack)
    /\ queue' = FilesOf(Head(stack))
    /\ UNCHANGED <<dirs, files, disk, orig, stderr, result, locals>>

\* a file that ends with no target extension is passed over
SkipFile ==
    /\ queue # <<>>
    /\ ~Selected(files[Head(queue)].name)
    /\ queue' = Tail(queue)
    /\ UNCHANGED <<dirs, files, disk, orig, stack, stderr, result, locals>>

\* process_file(filepath): open for reading raised
ReadFailsMutant(f) ==
    /\ result' = [result EXCEPT ![f] = "readfail"]
    /\ locals' = [NoCall EXCEPT !.file = f]
    /\ UNCHANGED <<disk, stderr>>
ReadFails(f) ==
    /\ stderr' = Append(stderr, [op |-> "read", file |-> f])
    /\ result' = [result EXCEPT ![f] = "readfail"]
    /\ locals' = [NoCall EXCEPT !.file = f]
    /\ UNCHANGED disk

\* process_file(filepath): the extension selects no pattern, plain return
NoDialect(f) ==
    /\ PatternOf(splitext(files[f].name)) = "none"
    /\ result' = [result EXCEPT ![f] = "nodialect"]
    /\ locals' = [NoCall EXCEPT !.file = f, !.content = ReadText(disk[f])]
    /\ UNCHANGED <<disk, stderr>>

\* process_file(filepath): strip, compact, write back; the write may raise
\* when the file is opened (nothing changes) or after it was truncated
Rewrite(f) ==
    LET pat == PatternOf(splitext(files[f].name))
        content == ReadText(disk[f])
        new_content == Strip(pat, content)
        final_content == FinalContent(new_content)
    IN  /\ pat # "none"
        /\ locals' = [file |-> f, pat |-> pat, content |-> content,
                      new_content |-> new_content,
                      final_content |-> final_content]
        /\ \/ /\ disk' = [disk EXCEPT ![f] = final_content]
              /\ result' = [result EXCEPT ![f] = "written"]
              /\ UNCHANGED stderr
           \/ /\ \E left \in {disk[f], <<>>} : disk' = [disk EXCEPT ![f] = left]
              /\ result' = [result EXCEPT ![f] = "writefail"]
              /\ stderr' = Append(stderr, [op |-> "write", file |-> f])

ProcessFile ==
    /\ queue # <<>>
    /\ Selected(files[Head(queue)].name)
    /\ queue' = Tail(queue)
    /\ \/ ReadFails(Head(queue))
       \/ NoDialect(Head(queue))
       \/ Rewrite(Head(queue))
    /\ UNCHANGED <<dirs, files, orig, stack>>

Next == WalkDir \/ SkipFile \/ ProcessFile

Spec == Init /\ [][Next]_vars

Done == stack = <<>> /\ queue = <<>>


\* ------------------------------------------------------------------------
\* The walk over a tree with .git directories and several files
\* ------------------------------------------------------------------------
WalkTree == <<[name |-> <<".">>, parent |-> 0],
              [name |-> GitName, parent |-> 1],
              [name |-> <<"s", "u", "b">>, parent |-> 1],
              [name |-> GitName, parent |-> 3]>>

WalkNames == <<NameTs, NameDotYml, NameTxt>>
WalkTexts == {<<"a", "/", "/", "b">>, <<"a", NL>>}

\* every (directory, name) a file can have, in listing order
Slots == [k \in 1..(Len(WalkTree) * Len(WalkNames)) |->
             [dir |-> ((k - 1) \div Len(WalkNames)) + 1,
              name |-> WalkNames[((k - 1) % Len(WalkNames)) + 1]]]

WalkInit ==
    /\ dirs = WalkTree
    /\ \E n \in 0..MaxFiles : \E pick \in [1..n -> 1..Len(Slots)] :
          /\ \A i, j \in 1..n : i < j => pick[i] < pick[j]
          /\ files = [i \in 1..n |-> Slots[pick[i]]]
          /\ disk \in [1..n -> WalkTexts]
    /\ orig = disk
    /\ stack = <<1>>
    /\ queue = <<>>
    /\ stderr = <<>>
    /\ result = [f \in DOMAIN files |-> "none"]
    /\ locals = NoCall

WalkSpec == WalkInit /\ [][Next]_vars

\* main is a sequential loop: as long as a directory or a file is left, the
\* next step is taken
WalkFair == WalkInit /\ [][Next]_vars /\ WF_vars(Next)

\* ------------------------------------------------------------------------
\* Vocabulary of the properties: the spans of the tolerant scanner the
\* design describes (a literal ends at the next unescaped matching quote, a
\* backslash escapes whatever follows it, an unterminated span runs to the
\* end of the text)
\* ------------------------------------------------------------------------
RefQuotes(pat) ==
    IF pat = "js" THEN {SQ, DQ, BT} ELSE IF pat = "yml" THEN {SQ, DQ} ELSE {}

RefBlockOpen(pat) ==
    IF pat \in {"js", "css"} THEN SlashStar
    ELSE IF pat = "html" THEN MarkupOpen ELSE <<>>

RefBlockClose(pat) == IF pat = "html" THEN MarkupClose ELSE StarSlash

RefLineOpen(pat) ==
    IF pat = "js" THEN SlashSlash ELSE IF pat = "yml" THEN Hash ELSE <<>>

RECURSIVE RefClose(_, _, _)
RefClose(s, i, q) ==
    IF i > Len(s) THEN 0
    ELSE IF s[i] = BS THEN RefClose(s, i + 2, q)
    ELSE IF s[i] = q THEN i
    ELSE RefClose(s, i + 1, q)

RECURSIVE RefFind(_, _, _)
RefFind(s, j, t) ==
    IF j + Len(t) - 1 > Len(s) THEN 0
    ELSE IF SubSeq(s, j, j + Len(t) - 1) = t THEN j
    ELSE RefFind(s, j + 1, t)

RECURSIVE RefLineEnd(_, _)
RefLineEnd(s, j) == IF j > Len(s) \/ s[j] = NL THEN j - 1 ELSE RefLineEnd(s, j + 1)

RefAt(s, i, t) == t # <<>> /\ i + Len(t) - 1 <= Len(s) /\ SubSeq(s, i, i + Len(t) - 1) = t

RECURSIVE RefSpans(_, _, _)
RefSpans(pat, s, i) ==
    IF i > Len(s) THEN <<>>
    ELSE IF s[i] \in RefQuotes(pat)
    THEN LET c == RefClose(s, i + 1, s[i])
         IN  IF c # 0
             THEN <<[kind |-> "Literal", from |-> i, to |-> c, closed |-> TRUE]>>
                  \o RefSpans(pat, s, c + 1)
             ELSE <<[kind |-> "Literal", from |-> i, to |-> Len(s), closed |-> FALSE]>>
    ELSE IF RefAt(s, i, RefBlockOpen(pat))
    THEN LET c == RefFind(s, i + Len(RefBlockOpen(pat)), RefBlockClose(pat))
         IN  IF c # 0
             THEN <<[kind |-> "Block", from |-> i,
                     to |-> c + Len(RefBlockClose(pat)) - 1, closed |-> TRUE]>>
                  \o RefSpans(pat, s, c + Len(RefBlockClose(pat)))
             ELSE <<[kind |-> "Block", from |-> i, to |-> Len(s), closed |-> FALSE]>>
    ELSE IF RefAt(s, i, RefLineOpen(pat))
    THEN <<[kind |-> "Line", from |-> i, to |-> RefLineEnd(s, i), closed |-> TRUE]>>
         \o RefSpans(pat, s, RefLineEnd(s, i) + 1)
    ELSE RefSpans(pat, s, i + 1)

Spans(pat, s) == RefSpans(pat, s, 1)

\* the text with every comment span of the tolerant scanner taken out
RefStrip(pat, s) ==
    LET sp == Spans(pat, s)
        idx == SelectSeq([k \in 1..Len(s) |-> k],
                  LAMBDA k : ~\E j \in 1..Len(sp) :
                      sp[j].kind # "Literal" /\ sp[j].from <= k /\ k <= sp[j].to)
    IN  [j \in 1..Len(idx) |-> s[idx[j]]]

Occurs(t, s) == \E p \in 1..(Len(s) - Len(t) + 1) : SubSeq(s, p, p + Len(t) - 1) = t

HasIn(s, from, to, t) == \E p \in from..(to - Len(t) + 1) : SubSeq(s, p, p + Len(t) - 1) = t

\* a comment delimiter of the dialect lies strictly inside the span
DelimiterInside(pat, s, sp) ==
    \/ RefLineOpen(pat) # <<>> /\ HasIn(s, sp.from + 1, sp.to - 1, RefLineOpen(pat))
    \/ pat = "js" /\ HasIn(s, sp.from + 1, sp.to - 1, SlashStar)

Stripped == locals.pat # "none"
Content == locals.content
Out == locals.new_content

\* index p is not inside a match that started before it: the scan of re.sub
\* arrives at p
Reached(pat, s, p) ==
    LET ms == Matches(pat, s, 1)
    IN  ~\E j \in 1..Len(ms) : ms[j].from < p /\ p <= ms[j].to

Before(s, p) == SubSeq(s, 1, p - 1)
After(s, p) == SubSeq(s, p + 1, Len(s))


LiteralSpans(pat, s) ==
    {sp \in {Spans(pat, s)[j] : j \in 1..Len(Spans(pat, s))} :
        sp.kind = "Literal" /\ sp.closed}

TextOf(s, sp) == SubSeq(s, sp.from, sp.to)

\* ------------------------------------------------------------------------
\* Properties
\* ------------------------------------------------------------------------

\* C1: a comment delimiter inside a well-formed literal (Script, and Config
\* with ' and ") is never taken as a comment start: no comment match starts
\* inside the literal and the whole literal is in the stripped text.
C1_LiteralPreserved ==
    (Stripped /\ locals.pat \in {"js", "yml"}) =>
        \A sp \in LiteralSpans(locals.pat, Content) :
            DelimiterInside(locals.pat, Content, sp) =>
                /\ Occurs(TextOf(Content, sp), Out)
                /\ LET ms == Matches(locals.pat, Content, 1)
                   IN  ~\E j \in 1..Len(ms) :
                          ms[j].g # 1 /\ sp.from <= ms[j].from /\ ms[j].from <= sp.to

\* C2: when every span of the input is well formed and there is a comment
\* outside all literals, the stripped text is the input without its comments:
\* the comments are gone and every other character is kept in order.
C2_CommentRemoved ==
    Stripped =>
        LET sp == Spans(locals.pat, Content)
        IN  ( /\ \E j \in 1..Len(sp) : sp[j].kind # "Literal"
              /\ \A j \in 1..Len(sp) : sp[j].closed )
            => Out = RefStrip(locals.pat, Content)

\* C3: the output of one pass (strip, drop blank lines, one terminator) is a
\* fixed point of the pass.
C3_Idempotent ==
    Stripped =>
        FinalContent(Strip(locals.pat, locals.final_content)) = locals.final_content

\* C4: the text process_file writes has no empty or whitespace-only line,
\* keeps the surviving lines in order, and is empty or ends with exactly one
\* terminator, with exactly one terminator between surviving lines.
C4_Compaction ==
    Stripped =>
        LET fin == locals.final_content
        IN  /\ \A k \in 1..Len(fin) : fin[k] \in LineBreaks => fin[k] = NL
            /\ fin # <<>> => fin[Len(fin)] = NL
            /\ \A a \in 1..Len(fin) : \A b \in (a - 1)..(Len(fin) - 1) :
                  ( /\ a = 1 \/ fin[a - 1] = NL
                    /\ fin[b + 1] = NL
                    /\ \A k \in a..b : fin[k] # NL )
                  => \E k \in a..b : fin[k] \notin Whitespace
            /\ splitlines(fin) = SelectSeq(splitlines(Out), NonBlank)
            /\ (fin = <<>>) <=> (\A k \in 1..Len(Out) : Out[k] \in Whitespace)
            /\ result[locals.file] = "written" => disk[locals.file] = fin

C4_Witness ==
    /\ Stripped
    /\ result[locals.file] = "written"
    /\ \E k \in 1..Len(splitlines(Out)) : ~NonBlank(splitlines(Out)[k])
    /\ Len(splitlines(locals.final_content)) >= 2

\* C5: a file whose extension is none of .ts .tsx .html .css .yml, or whose
\* read failed, is never written: its bytes stay as they were and no write
\* is attempted.
C5_LeftUnchanged ==
    \A f \in DOMAIN files :
        ( /\ result[f] # "none"
          /\ \/ splitext(files[f].name) \notin target_extensions
             \/ result[f] = "readfail" )
        => /\ disk[f] = orig[f]
           /\ result[f] \notin {"written", "writefail"}
           /\ \A k \in 1..Len(stderr) : stderr[k] # [op |-> "write", file |-> f]

\* main selected .ts by its suffix, splitext gives it no extension, and the
\* text has a comment the Script pattern would have removed
C5_Witness ==
    \E f \in DOMAIN files :
        /\ files[f].name = NameDotTs
        /\ result[f] = "nodialect"
        /\ Strip("js", ReadText(orig[f])) # ReadText(orig[f])

RECURSIVE InGit(_)
InGit(d) == dirs[d].name = GitName \/ (dirs[d].parent # 0 /\ InGit(dirs[d].parent))

Eligible(f) == Selected(files[f].name) /\ ~InGit(files[f].dir)

Reports(f) == Cardinality({k \in 1..Len(stderr) : stderr[k].file = f})

Expected(f) ==
    FinalContent(Strip(PatternOf(splitext(files[f].name)), ReadText(orig[f])))

WalkOutcome ==
    \A f \in DOMAIN files :
        /\ Reports(f) = IF result[f] \in {"readfail", "writefail"} THEN 1 ELSE 0
        /\ result[f] = "written" => disk[f] = Expected(f)

\* C6: whatever reads and writes fail, the walk ends having called
\* process_file on every eligible file outside .git; each failure is reported
\* once, for its file; a file whose I/O succeeded holds what it would hold had
\* nothing else failed.
C6_ContinueOnFailure ==
    /\ []WalkOutcome
    /\ <>(Done /\ \A f \in DOMAIN files : Eligible(f) => result[f] # "none")

C6_Witness ==
    /\ Done
    /\ \E f, g \in DOMAIN files :
          /\ f < g
          /\ result[f] = "readfail"
          /\ result[g] = "written"
          /\ disk[g] # orig[g]

\* C7 as stated: an unterminated literal runs to the end of the text, so
\* every character from its quote on is kept.
C7_UnterminatedLiteralKept ==
    (Stripped /\ locals.pat = "js") =>
        \A j \in 1..Len(Spans("js", Content)) :
            LET sp == Spans("js", Content)[j]
                n == Len(Content) - sp.from + 1
            IN  (sp.kind = "Literal" /\ ~sp.closed) =>
                    /\ Len(Out) >= n
                    /\ SubSeq(Out, Len(Out) - n + 1, Len(Out)) = TextOf(Content, sp)

UnterminatedQuoteAt(s, p) ==
    /\ s[p] \in {SQ, DQ, BT}
    /\ Reached("js", s, p)
    /\ RefClose(s, p + 1, s[p]) = 0

\* C7 amended: a quote the scan arrives at with no unescaped matching quote
\* after it opens no span to the end of the text.  A ' or " (and a backtick
\* with no backtick at all after it) is kept as one plain character and the
\* scan goes on right after it, so comments after it are removed; a backtick
\* followed only by escaped backticks is matched as a literal ending at one
\* of them, and the scan goes on after that.
C7_UnterminatedQuoteIsPlain ==
    (Stripped /\ locals.pat = "js") =>
        \A p \in 1..Len(Content) :
            UnterminatedQuoteAt(Content, p) =>
                IF Content[p] # BT \/ \A k \in (p + 1)..Len(Content) : Content[k] # BT
                THEN Out = Strip("js", Before(Content, p)) \o <<Content[p]>>
                           \o Strip("js", After(Content, p))
                ELSE \E e \in (p + 1)..Len(Content) :
                        /\ Content[e] = BT
                        /\ Out = Strip("js", Before(Content, p))
                                 \o SubSeq(Content, p, e)
                                 \o Strip("js", After(Content, e))

C7_Witness ==
    /\ Stripped /\ locals.pat = "js"
    /\ \E p \in 1..Len(Content) :
          /\ UnterminatedQuoteAt(Content, p)
          /\ Content[p] = SQ
          /\ Strip("js", After(Content, p)) # After(Content, p)

\* C8 as stated: an unterminated block or markup comment runs to the end of
\* the text, so the output is the input with it (and the comments before it)
\* taken out.
C8_UnterminatedCommentRemoved ==
    (Stripped /\ locals.pat \in {"js", "css", "html"}) =>
        LET sp == Spans(locals.pat, Content)
        IN  (\E j \in 1..Len(sp) : sp[j].kind = "Block" /\ ~sp[j].closed)
            => Out = RefStrip(locals.pat, Content)

UnterminatedOpenerAt(pat, s, p) ==
    /\ RefAt(s, p, RefBlockOpen(pat))
    /\ Reached(pat, s, p)
    /\ RefFind(s, p + Len(RefBlockOpen(pat)), RefBlockClose(pat)) = 0

\* C8 amended: an opener the scan arrives at with no closer after it starts
\* no comment: its first character is kept as plain text and the scan goes on
\* right after it, so nothing is removed on its account, and no error is
\* raised.
C8_UnterminatedOpenerIsPlain ==
    (Stripped /\ locals.pat \in {"js", "css", "html"}) =>
        \A p \in 1..Len(Content) :
            UnterminatedOpenerAt(locals.pat, Content, p) =>
                Out = Strip(locals.pat, Before(Content, p)) \o <<Content[p]>>
                      \o Strip(locals.pat, After(Content, p))

C8_Witness ==
    /\ Stripped /\ locals.pat = "html"
    /\ \E p \in 1..Len(Content) :
          /\ UnterminatedOpenerAt("html", Content, p)
          /\ p > 1
          /\ Len(Out) = Len(Content)

\* C9: inside a Script literal a backslash escapes the next character
\* whatever it is, so the literal runs to the next unescaped matching quote:
\* the pattern matches exactly that span as a string and it is kept.
C9_EscapeKeepsLiteralOpen ==
    (Stripped /\ locals.pat = "js") =>
        \A sp \in LiteralSpans("js", Content) :
            (\E k \in (sp.from + 1)..(sp.to - 1) : Content[k] = BS) =>
                /\ \E j \in 1..Len(Matches("js", Content, 1)) :
                      Matches("js", Content, 1)[j] = [g |-> 1, from |-> sp.from, to |-> sp.to]
                /\ Occurs(TextOf(Content, sp), Out)

\* C10: the text of every Script literal, blank lines inside it included, is
\* in the final text process_file writes, character for character.
C10_LiteralInFinalText ==
    (Stripped /\ locals.pat = "js") =>
        \A sp \in LiteralSpans("js", Content) :
            Occurs(TextOf(Content, sp), locals.final_content)

====
